---- MODULE Spec2Model ----
(***************************************************************************)
(* combine_datasets of combine_yolo_datasets.py as a state machine.        *)
(*                                                                         *)
(* File names and label lines are sequences of one-character strings, so   *)
(* that os.path.splitext, str.split, int() and the f-string that builds a  *)
(* destination file name are computed character by character.  Class       *)
(* names are plain strings: the code only compares them and looks them up  *)
(* in a dict.                                                              *)
(***************************************************************************)
EXTENDS Integers, Sequences, FiniteSets, TLC

\* ------------------------------------------------------------------ bounds
\* Number of entries of dataset_paths.
NumDatasets == 2
\* Image files listed over a whole run (all datasets, all splits).
MaxImages == 2
\* Lines of the source label files listed over a whole run.
MaxLabelLines == 2
\* Class names declared over all manifests, in the vocabulary specification.
MaxTotalClasses == 3

\* ------------------------------------------------------- strings of the code
\* The splits list (line 96), in its order.
splits ==
    << <<"t","r","a","i","n">>, <<"v","a","l","i","d">>, <<"t","e","s","t">> >>

NumSplits == Len(splits)

DigitChars == <<"0","1","2","3","4","5","6","7","8","9">>

Whitespace == {" ", "\t", "\n"}

IsDigit(c) == \E i \in 1..10 : DigitChars[i] = c

DigitVal(c) == CHOOSE i \in 0..9 : DigitChars[i + 1] = c

\* str(n) of a non-negative int, as the f-string of line 171 and str() of
\* line 159 format it.
RECURSIVE str(_)
str(n) ==
    IF n < 10 THEN <<DigitChars[n + 1]>>
    ELSE str(n \div 10) \o <<DigitChars[(n % 10) + 1]>>

RECURSIVE DigitsValue(_)
DigitsValue(s) ==
    IF s = <<>> THEN 0
    ELSE DigitsValue(SubSeq(s, 1, Len(s) - 1)) * 10 + DigitVal(s[Len(s)])

\* The digits of a token after its optional sign.
Unsigned(tok) ==
    IF tok # <<>> /\ tok[1] \in {"+", "-"} THEN Tail(tok) ELSE tok

\* int(tok) succeeds: an optional sign and at least one digit (no ValueError).
IsIntToken(tok) ==
    /\ Unsigned(tok) # <<>>
    /\ \A i \in 1..Len(Unsigned(tok)) : IsDigit(Unsigned(tok)[i])

\* int(tok), for a token int() accepts.
int(tok) ==
    IF tok[1] = "-" THEN 0 - DigitsValue(Unsigned(tok))
    ELSE DigitsValue(Unsigned(tok))

RECURSIVE SplitAcc(_, _, _)
SplitAcc(s, cur, acc) ==
    IF s = <<>> THEN (IF cur = <<>> THEN acc ELSE Append(acc, cur))
    ELSE IF Head(s) \in Whitespace
         THEN SplitAcc(Tail(s), <<>>, IF cur = <<>> THEN acc ELSE Append(acc, cur))
         ELSE SplitAcc(Tail(s), Append(cur, Head(s)), acc)

\* line.strip().split(): the maximal runs of non-whitespace characters.
strip_split(line) == SplitAcc(line, <<>>, <<>>)

\* ' '.join(tokens)
RECURSIVE join(_)
join(tokens) ==
    IF tokens = <<>> THEN <<>>
    ELSE IF Len(tokens) = 1 THEN tokens[1]
    ELSE tokens[1] \o <<" ">> \o join(Tail(tokens))

\* os.path.splitext(p)[0] for a name without a directory separator: cut at
\* the last dot, unless every character before that dot is a dot too.
splitext(p) ==
    LET dots == {i \in 1..Len(p) : p[i] = "."}
    IN  IF dots = {} THEN p
        ELSE LET dotIndex == CHOOSE i \in dots : \A j \in dots : j <= i
             IN  IF \E k \in 1..(dotIndex - 1) : p[k] # "."
                 THEN SubSeq(p, 1, dotIndex - 1)
                 ELSE p

DotTxt == <<".","t","x","t">>

\* label_filename of line 133 and dst_label_filename of line 177.
LabelFilename(name) == splitext(name) \o DotTxt

\* Variant of DstImgFilename: the dataset index is left out of the name.
DstNoIndex(idx, split, img) == split \o <<"_">> \o img

\* dst_img_filename of line 171
DstImgFilename(idx, split, img) ==
    str(idx) \o <<"_">> \o split \o <<"_">> \o img

\* ------------------------------------------------------ vocabulary (step 1)
\* label_mapping, lines 52-67
label_mapping ==
    ("ball" :> "ball") @@ ("Ball" :> "ball") @@ ("handball" :> "ball") @@
    ("goalkeeper" :> "goalkeeper") @@ ("handballgoalkeeper" :> "goalkeeper") @@
    ("players" :> "players") @@ ("player" :> "players") @@
    ("handballplayer" :> "players") @@ ("Player" :> "players") @@
    ("referees" :> "referees") @@ ("referee" :> "referees") @@
    ("handballreferee" :> "referees") @@ ("referi" :> "referees")

\* Variant of combine_labels: the synonym table is not consulted.
NoMerge(old_label, mapping) == old_label

\* combine_labels, lines 25-27: dict.get with the old label as default.
combine_labels(old_label, mapping) ==
    IF old_label \in DOMAIN mapping THEN mapping[old_label] ELSE old_label

\* list.index: 0-based position of the first equal element.
IndexOf(seq, x) ==
    (CHOOSE i \in 1..Len(seq) :
        seq[i] = x /\ \A j \in 1..(i - 1) : seq[j] # x) - 1

\* Variant of NewClassId: 1-based position.
IndexOffByOne(seq, x) == IndexOf(seq, x) + 1

\* new_class_id of line 89
NewClassId(combined, new_label) == IndexOf(combined, new_label)

\* Variant of AddClass: the membership test of line 87 is left out.
AddClassAlways(combined, new_label) == Append(combined, new_label)

\* lines 87-88: append the new label unless it is already in the list.
AddClass(combined, new_label) ==
    IF \E i \in 1..Len(combined) : combined[i] = new_label
    THEN combined
    ELSE Append(combined, new_label)

\* The loop of lines 83-90 over dataset_classes[1..n]: the combined list and
\* the mapping (old id -> new id, ids 0-based) after n classes.
RECURSIVE BuildMapping(_, _, _)
BuildMapping(dataset_classes, n, combined) ==
    IF n = 0 THEN [combined |-> combined, mapping |-> <<>>]
    ELSE LET prev == BuildMapping(dataset_classes, n - 1, combined)
             new_label == combine_labels(dataset_classes[n], label_mapping)
             comb == AddClass(prev.combined, new_label)
         IN  [combined |-> comb,
              mapping  |-> Append(prev.mapping, NewClassId(comb, new_label))]

\* mapping is kept as a sequence: old class id k is position k + 1.
InMapping(mapping, old_class_id) ==
    old_class_id >= 0 /\ old_class_id < Len(mapping)

MappingGet(mapping, old_class_id) == mapping[old_class_id + 1]

\* ------------------------------------------------ label lines (validator)
\* Variant of InRange: the upper end is included.
RangeUpToNumClasses(class_id, num_classes) == 0 <= class_id /\ class_id <= num_classes

\* line 36
InRange(class_id, num_classes) == 0 <= class_id /\ class_id < num_classes

\* is_valid_label_line, lines 29-41
is_valid_label_line(line, num_classes) ==
    LET elements == strip_split(line)
    IN  /\ Len(elements) >= 5
        /\ IsIntToken(elements[1])
        /\ InRange(int(elements[1]), num_classes)

\* new_line of line 159
NewLine(new_class_id, elements) == join(<<str(new_class_id)>> \o Tail(elements))

\* The loop of lines 145-163 over label_lines[1..n]: the rewritten lines, the
\* lines the validator rejected (line 150) and the accepted lines whose class
\* id has no entry in the mapping (lines 161-163).
RECURSIVE ProcessLines(_, _, _, _)
ProcessLines(label_lines, n, mapping, num_classes) ==
    IF n = 0 THEN [valid_label_lines |-> <<>>, rejected |-> 0, unmapped |-> 0]
    ELSE LET prev == ProcessLines(label_lines, n - 1, mapping, num_classes)
             line == label_lines[n]
             elements == strip_split(line)
         IN  IF ~is_valid_label_line(line, num_classes)
             THEN [prev EXCEPT !.rejected = @ + 1]
             ELSE IF InMapping(mapping, int(elements[1]))
             THEN [prev EXCEPT !.valid_label_lines =
                     Append(@, NewLine(MappingGet(mapping, int(elements[1])), elements))]
             ELSE [prev EXCEPT !.unmapped = @ + 1]

\* ------------------------------------------------------------ the summary
ZeroCounters == [images |-> 0, labels |-> 0, missing_labels |-> 0, invalid_labels |-> 0]

\* summary of line 107, keyed by dataset index (the paths of dataset_paths
\* are taken to be distinct) and split index.
ZeroSummary == [d \in 0..(NumDatasets - 1) |-> [s \in 1..NumSplits |-> ZeroCounters]]

\* Variant of CountMissing: the wrong counter.
CountMissingAsInvalid(counters) == [counters EXCEPT !.invalid_labels = @ + 1]

\* line 138
CountMissing(counters) == [counters EXCEPT !.missing_labels = @ + 1]

\* Variant of CountDropped: the dropped image is not counted.
CountDroppedNot(counters) == counters

\* line 167
CountDropped(counters) == [counters EXCEPT !.invalid_labels = @ + 1]

\* Variant of NoValidLabels: an image without valid lines is kept.
KeepEmpty(valid_label_lines) == FALSE

\* line 165
NoValidLabels(valid_label_lines) == valid_label_lines = <<>>

\* ------------------------------------------------------- the output files
\* A directory of the output is a set of [split, name, content, src] records,
\* at most one per (split, name): copying or writing replaces a file of that
\* name.  src is the source image the file was made for; the content of a
\* copied image is that of its source.
PutFile(files, s, name, content, src) ==
    {f \in files : ~(f.split = s /\ f.name = name)}
        \cup {[split |-> s, name |-> name, content |-> content, src |-> src]}

\* The body of the loop of lines 130-181 for one image, on the record st of
\* the output files and counters.
ProcessImageFn(st, d, s, img, ldir, mapping, num_classes) ==
    LET label_filename == LabelFilename(img)
    IN  IF label_filename \notin DOMAIN ldir
        THEN [st EXCEPT !.summary[d][s] = CountMissing(@)]
        ELSE
          LET label_lines == ldir[label_filename]
              res == ProcessLines(label_lines, Len(label_lines), mapping, num_classes)
              counted == [st EXCEPT
                            !.summary[d][s].invalid_labels = @ + res.rejected + res.unmapped,
                            !.not_in_mapping = @ + res.unmapped]
          IN  IF NoValidLabels(res.valid_label_lines)
              THEN [counted EXCEPT !.summary[d][s] = CountDropped(@)]
              ELSE
                LET dst_img_filename == DstImgFilename(d, splits[s], img)
                    dst_label_filename == LabelFilename(dst_img_filename)
                    src == [dataset |-> d, name |-> img]
                IN  [counted EXCEPT
                       !.out_images = PutFile(@, s, dst_img_filename, src, src),
                       !.out_labels = PutFile(@, s, dst_label_filename,
                                              res.valid_label_lines, src),
                       !.summary[d][s].images = @ + 1,
                       !.summary[d][s].labels = @ + 1]

\* ------------------------------------------------------------------ inputs
\* Declared class lists of a manifest in the file-processing specification.
ClassLists == { <<"ball", "player">>, <<"Ball", "referee">> }

\* Class names of the vocabulary specification.
ClassNames == {"ball", "Ball", "handball", "Player", "player", "players", "net"}

Manifests(lists) ==
    {[exists |-> FALSE, names |-> <<>>]} \cup {[exists |-> TRUE, names |-> n] : n \in lists}

SeqsUpTo(S, n) == UNION {[1..k -> S] : k \in 0..n}

\* File names of a source images directory.
F_frame1 == <<"f","r","a","m","e","1",".","j","p","g">>
F_dot_a == <<".","a">>
F_dot_b == <<".","b">>

ImageNames == {F_frame1, F_dot_a, F_dot_b}

\* Lines of a source label file, as readlines() returns them.
L_A == <<"1"," ","0",".","5"," ","0",".","5"," ","0",".","1"," ","0",".","1","\n">>
L_B == <<"0"," ","0",".","2"," ","0",".","2"," ","0",".","0","5"," ","0",".","0","5","\n">>
L_2 == <<"2"," ","0",".","3"," ","0",".","3"," ","0",".","2"," ","0",".","2","\n">>
L_99 == <<"9","9"," ","0",".","1"," ","0",".","2"," ","0",".","3"," ","0",".","4","\n">>
L_short == <<"0"," ","0",".","1"," "," ","0",".","2","\n">>
L_x == <<"x"," ","0",".","1"," ","0",".","2"," ","0",".","3"," ","0",".","4","\n">>

LineChoices == {L_A, L_B, L_2, L_99, L_short, L_x}

\* The lines of all label files of a directory together.
RECURSIVE TotalLines(_, _)
TotalLines(ldir, names) ==
    IF names = {} THEN 0
    ELSE LET n == CHOOSE x \in names : TRUE
         IN  Len(ldir[n]) + TotalLines(ldir, names \ {n})

\* ------------------------------------------------------------------- state
VARIABLES
    manifests,         \* input: per dataset, whether data.yaml exists and its names
    pc,                \* "vocab", "io", "done" or "aborted" (FileNotFoundError)
    dataset_idx,       \* loop variable of lines 73 and 110
    combined_classes,  \* line 70
    class_mappings,    \* line 71
    num_classes,       \* line 93
    out_dirs,          \* output directories made by lines 97-101
    out_yaml,          \* the combined data.yaml of line 104
    summary,           \* line 107
    split_idx,         \* loop variable of line 113, 0 before the first split
    image_files,       \* line 129: the images of the current split, none when it is skipped
    todo,              \* the images the loop of line 130 has yet to take
    labels_dir,        \* the label files of the current split's labels directory
    img_file,          \* loop variable of line 130
    out_images,        \* files of the output images directories
    out_labels,        \* files of the output labels directories
    not_in_mapping,    \* warnings printed by line 162
    listed,            \* image files listed so far
    lines_listed,      \* label lines listed so far
    sorted_run         \* what the run produces when every listing is taken in one fixed order

vars ==
    <<manifests, pc, dataset_idx, combined_classes, class_mappings, num_classes,
      out_dirs, out_yaml, summary, split_idx, image_files, todo, labels_dir,
      img_file, out_images, out_labels, not_in_mapping, listed, lines_listed, sorted_run>>

NoFiles == {}

NoLabelsDir == [n \in {} |-> <<>>]

EmptyResult ==
    [out_images |-> NoFiles, out_labels |-> NoFiles, summary |-> ZeroSummary,
     not_in_mapping |-> 0]

\* The output files and counters of the current state.
Result ==
    [out_images |-> out_images, out_labels |-> out_labels, summary |-> summary,
     not_in_mapping |-> not_in_mapping]

InitWith(ms) ==
    /\ manifests \in ms
    /\ pc = "vocab"
    /\ dataset_idx = 0
    /\ combined_classes = <<>>
    /\ class_mappings = <<>>
    /\ num_classes = 0
    /\ out_dirs = {}
    /\ out_yaml = [written |-> FALSE, nc |-> 0, names |-> <<>>]
    /\ summary = ZeroSummary
    /\ split_idx = 0
    /\ image_files = {}
    /\ todo = {}
    /\ labels_dir = NoLabelsDir
    /\ img_file = <<>>
    /\ out_images = NoFiles
    /\ out_labels = NoFiles
    /\ not_in_mapping = 0
    /\ listed = 0
    /\ lines_listed = 0
    /\ sorted_run = EmptyResult

Init == InitWith([1..NumDatasets -> Manifests(ClassLists)])

\* The ways to cut a list of n class names into NumDatasets consecutive lists.
Cuts(n) ==
    {c \in [1..NumDatasets -> 0..n] :
        c[NumDatasets] = n /\ \A d \in 1..(NumDatasets - 1) : c[d] <= c[d + 1]}

\* The manifests that all exist and declare the names of flat, cut at c.
VocabManifests(flat, c) ==
    [d \in 1..NumDatasets |->
       [exists |-> TRUE,
        names |-> SubSeq(flat, IF d = 1 THEN 1 ELSE c[d - 1] + 1, c[d])]]

\* Manifests that all exist and declare at most MaxTotalClasses names together.
InitVocab ==
    \E flat \in SeqsUpTo(ClassNames, MaxTotalClasses) :
        \E c \in Cuts(Len(flat)) : InitWith({VocabManifests(flat, c)})

\* ----------------------------------------------------------------- actions
\* Variant of ManifestMissing: a dataset without manifest counts as one
\* that declares no class.
SkipMissing(m) == FALSE

\* line 75, negated: the manifest of the dataset is missing.
ManifestMissing(m) == ~m.exists

\* One iteration of the loop of lines 73-91.
ReadManifest ==
    /\ pc = "vocab"
    /\ dataset_idx < NumDatasets
    /\ LET m == manifests[dataset_idx + 1]
       IN  IF ManifestMissing(m)
           THEN /\ pc' = "aborted"
                /\ UNCHANGED <<dataset_idx, combined_classes, class_mappings>>
           ELSE LET r == BuildMapping(m.names, Len(m.names), combined_classes)
                IN  /\ combined_classes' = r.combined
                    /\ class_mappings' = Append(class_mappings, r.mapping)
                    /\ dataset_idx' = dataset_idx + 1
                    /\ pc' = pc
    /\ UNCHANGED <<manifests, num_classes, out_dirs, out_yaml, summary, split_idx,
                   image_files, todo, labels_dir, img_file, out_images, out_labels,
                   not_in_mapping, listed, lines_listed, sorted_run>>

\* Lines 93-107, after the last manifest: the output directories, the combined
\* data.yaml and the zeroed summary.
CreateOutput ==
    /\ pc = "vocab"
    /\ dataset_idx = NumDatasets
    /\ num_classes' = Len(combined_classes)
    /\ out_dirs' = (1..NumSplits) \X {"images", "labels"}
    /\ out_yaml' = [written |-> TRUE, nc |-> Len(combined_classes),
                    names |-> combined_classes]
    /\ summary' = ZeroSummary
    /\ pc' = "io"
    /\ dataset_idx' = 0
    /\ split_idx' = 0
    /\ UNCHANGED <<manifests, combined_classes, class_mappings, image_files, todo,
                   labels_dir, img_file, out_images, out_labels, not_in_mapping,
                   listed, lines_listed, sorted_run>>

\* The listing of line 129 taken in one fixed order, image by image.
RECURSIVE FoldImages(_, _, _, _, _, _, _)
FoldImages(st, d, s, imgs, ldir, mapping, nc) ==
    IF imgs = {} THEN st
    ELSE LET img == CHOOSE i \in imgs : TRUE
         IN  FoldImages(ProcessImageFn(st, d, s, img, ldir, mapping, nc),
                        d, s, imgs \ {img}, ldir, mapping, nc)

\* The (dataset, split) pair the loops of lines 110 and 113 take next.
NextDataset == IF split_idx < NumSplits THEN dataset_idx ELSE dataset_idx + 1

NextSplit == IF split_idx < NumSplits THEN split_idx + 1 ELSE 1

\* Lines 113-129 for the next (dataset, split): the directories are looked
\* up and, when both exist, the images directory is listed.
EnterSplit ==
    /\ pc = "io"
    /\ todo = {}
    /\ NextDataset < NumDatasets
    /\ dataset_idx' = NextDataset
    /\ split_idx' = NextSplit
    /\ \E images_exists \in BOOLEAN, labels_exists \in BOOLEAN :
         IF ~images_exists \/ ~labels_exists
         THEN /\ image_files' = {}
              /\ todo' = {}
              /\ labels_dir' = NoLabelsDir
              /\ UNCHANGED <<listed, lines_listed, sorted_run>>
         ELSE \E listing \in SUBSET ImageNames :
                /\ Cardinality(listing) <= MaxImages - listed
                /\ \E names \in SUBSET {LabelFilename(i) : i \in listing} :
                     \E ldir \in [names -> SeqsUpTo(LineChoices, MaxLabelLines - lines_listed)] :
                       /\ TotalLines(ldir, names) <= MaxLabelLines - lines_listed
                       /\ lines_listed' = lines_listed + TotalLines(ldir, names)
                       /\ image_files' = listing
                       /\ todo' = listing
                       /\ labels_dir' = ldir
                       /\ listed' = listed + Cardinality(listing)
                       /\ sorted_run' =
                            FoldImages(sorted_run, NextDataset, NextSplit, listing,
                                       ldir, class_mappings[NextDataset + 1], num_classes)
    /\ UNCHANGED <<manifests, pc, combined_classes, class_mappings, num_classes,
                   out_dirs, out_yaml, summary, img_file, out_images, out_labels,
                   not_in_mapping>>

\* One iteration of the loop of lines 130-181, on any image not yet taken:
\* os.listdir gives the files in arbitrary order.
ProcessImage ==
    /\ pc = "io"
    /\ \E img \in todo :
         LET st == ProcessImageFn(Result, dataset_idx, split_idx, img, labels_dir,
                                  class_mappings[dataset_idx + 1], num_classes)
         IN  /\ img_file' = img
             /\ todo' = todo \ {img}
             /\ out_images' = st.out_images
             /\ out_labels' = st.out_labels
             /\ summary' = st.summary
             /\ not_in_mapping' = st.not_in_mapping
    /\ UNCHANGED <<manifests, pc, dataset_idx, combined_classes, class_mappings,
                   num_classes, out_dirs, out_yaml, split_idx, image_files,
                   labels_dir, listed, lines_listed, sorted_run>>

\* Lines 183-200: the loops are over, the summary is printed.
Finish ==
    /\ pc = "io"
    /\ todo = {}
    /\ NextDataset = NumDatasets
    /\ pc' = "done"
    /\ UNCHANGED <<manifests, dataset_idx, combined_classes, class_mappings,
                   num_classes, out_dirs, out_yaml, summary, split_idx, image_files,
                   todo, labels_dir, img_file, out_images, out_labels, not_in_mapping,
                   listed, lines_listed, sorted_run>>

Next == ReadManifest \/ CreateOutput \/ EnterSplit \/ ProcessImage \/ Finish

Spec == Init /\ [][Next]_vars

\* The vocabulary pass alone (lines 69-107), over a wider set of class names.
NextVocab == ReadManifest \/ CreateOutput

SpecVocab == InitVocab /\ [][NextVocab]_vars

\* ------------------------------------------------------------ properties
\* The image the loop of line 130 took last, once it is done with it.
LastProcessed == pc \in {"io", "done"} /\ img_file \in image_files \ todo

\* The source label file of the image taken last exists.
LastHasLabel == LastProcessed /\ LabelFilename(img_file) \in DOMAIN labels_dir

LastLabel == labels_dir[LabelFilename(img_file)]

\* A step of the image loop; the image it takes is img_file'.
ImageStep == pc = "io" /\ todo # {} /\ todo' # todo

\* What section 4.4 of the specification accepts: at least 5 tokens, the first
\* an integer in [0, vocabulary size).
Accepted(line) ==
    LET t == strip_split(line)
    IN  /\ Len(t) >= 5
        /\ IsIntToken(t[1])
        /\ 0 <= int(t[1])
        /\ int(t[1]) < num_classes

\* The class ids 0 .. n-1 the manifest of dataset d (0-based) declares.
Declared(d) == Len(manifests[d + 1].names)

\* C1: every line of every output label file starts with an integer class id
\* c with 0 <= c < nc, the class count written to the combined manifest.
IDRange ==
    \A f \in out_labels : \A i \in 1..Len(f.content) :
        LET t == strip_split(f.content[i])
        IN  /\ t # <<>>
            /\ IsIntToken(t[1])
            /\ 0 <= int(t[1])
            /\ int(t[1]) < out_yaml.nc

IDRangeWitness ==
    /\ pc = "done"
    /\ out_yaml.nc = 3
    /\ \E f \in out_labels : \E i \in 1..Len(f.content) :
         int(strip_split(f.content[i])[1]) = 2

\* C2: between two images, and so when the run completes, an output image
\* exists in a split if and only if the label file of its stem exists in that
\* split and has at least one line.
NoOrphan ==
    /\ \A f \in out_images : \E l \in out_labels :
         l.split = f.split /\ l.name = LabelFilename(f.name) /\ Len(l.content) >= 1
    /\ \A l \in out_labels :
         /\ Len(l.content) >= 1
         /\ \E f \in out_images : f.split = l.split /\ LabelFilename(f.name) = l.name

NoOrphanWitness ==
    /\ pc = "done"
    /\ listed = 2
    /\ Cardinality(out_images) = 1
    /\ Cardinality(out_labels) = 1
    /\ \E d \in 0..(NumDatasets - 1), s \in 1..NumSplits : summary[d][s].invalid_labels > 0

\* C3: no copy overwrites another (as many images of a dataset survive in a
\* split as were copied there), and the label file of every output image was
\* written for an image of the same dataset: outputs of different datasets
\* never share a file name, even for one source file name in one split.
CollisionFree ==
    /\ \A d \in 0..(NumDatasets - 1), s \in 1..NumSplits :
         Cardinality({f \in out_images : f.split = s /\ f.src.dataset = d})
             = summary[d][s].images
    /\ \A f \in out_images : \E l \in out_labels :
         /\ l.split = f.split
         /\ l.name = LabelFilename(f.name)
         /\ l.src.dataset = f.src.dataset

CollisionFreeWitness ==
    \E f \in out_images, g \in out_images :
        /\ f.split = 1 /\ g.split = 1
        /\ f.src = [dataset |-> 0, name |-> F_frame1]
        /\ g.src = [dataset |-> 1, name |-> F_frame1]
        /\ f.name # g.name
        /\ \E l \in out_labels, m \in out_labels :
             /\ l.split = 1 /\ m.split = 1
             /\ l.src = f.src /\ m.src = g.src
             /\ l.name # m.name

PlayerNames == {"Player", "player", "players"}

BallNames == {"ball", "Ball", "handball"}

\* The declared classes of the datasets read so far, as <<dataset, position>>.
DeclaredClasses ==
    UNION {{<<d, i>> : i \in 1..Len(manifests[d].names)} : d \in 1..Len(class_mappings)}

ClassName(c) == manifests[c[1]].names[c[2]]

UnifiedId(c) == class_mappings[c[1]][c[2]]

\* C4: two declared class names get the same unified id exactly when they
\* normalize to the same canonical name; Player, player and players share one
\* id, ball, Ball and handball share one id, a name that is not in the synonym
\* table keeps its spelling and shares its id only with the same spelling, and
\* the unified vocabulary holds no name twice.
SynonymMerge ==
    /\ \A c1 \in DeclaredClasses, c2 \in DeclaredClasses :
         /\ (UnifiedId(c1) = UnifiedId(c2))
              <=> (combine_labels(ClassName(c1), label_mapping)
                     = combine_labels(ClassName(c2), label_mapping))
         /\ (ClassName(c1) \in PlayerNames /\ ClassName(c2) \in PlayerNames)
              => UnifiedId(c1) = UnifiedId(c2)
         /\ (ClassName(c1) \in BallNames /\ ClassName(c2) \in BallNames)
              => UnifiedId(c1) = UnifiedId(c2)
         /\ ClassName(c1) \notin DOMAIN label_mapping
              => /\ combined_classes[UnifiedId(c1) + 1] = ClassName(c1)
                 /\ (UnifiedId(c1) = UnifiedId(c2)) <=> (ClassName(c1) = ClassName(c2))
    /\ \A i \in 1..Len(combined_classes), j \in 1..Len(combined_classes) :
         combined_classes[i] = combined_classes[j] => i = j

SynonymMergeWitness ==
    /\ pc = "io"
    /\ manifests[1].names = <<"Player", "net">>
    /\ manifests[NumDatasets].names = <<"players">>
    /\ class_mappings[1] = <<0, 1>>
    /\ class_mappings[NumDatasets] = <<0>>
    /\ combined_classes = <<"players", "net">>

\* C5: the vocabulary loop aborts at a dataset without manifest; while any
\* manifest is missing the run never leaves the vocabulary pass other than by
\* aborting, and then no output directory, no combined manifest and no output
\* file exists and nothing was listed; and directories are made and images
\* are listed, copied or labelled only once every dataset has its mapping.
ManifestFatal ==
    /\ [][(/\ pc = "vocab"
            /\ dataset_idx < NumDatasets
            /\ ~manifests[dataset_idx + 1].exists) => pc' = "aborted"]_vars
    /\ []((\E d \in 1..NumDatasets : ~manifests[d].exists)
            => /\ pc \in {"vocab", "aborted"}
               /\ out_dirs = {}
               /\ ~out_yaml.written
               /\ out_images = {} /\ out_labels = {}
               /\ listed = 0)
    /\ [](pc = "aborted" => \E d \in 1..NumDatasets : ~manifests[d].exists)
    /\ []((out_images # {} \/ out_labels # {} \/ listed > 0 \/ out_dirs # {}
              \/ out_yaml.written)
            => Len(class_mappings) = NumDatasets)

ManifestFatalWitness ==
    /\ pc = "aborted"
    /\ ~manifests[NumDatasets].exists
    /\ \A d \in 1..(NumDatasets - 1) : manifests[d].exists
    /\ Len(class_mappings) = NumDatasets - 1
    /\ out_dirs = {}

\* A line of the label file of dataset d that is rewritten: accepted, with a
\* class id the dataset declares.
Usable(line, d) == Accepted(line) /\ int(strip_split(line)[1]) < Declared(d)

\* C6: an image whose label file exists and holds no line that is rewritten
\* leaves the output files and the images and labels counters as they are,
\* adds one per line plus one to invalid_labels of its (dataset, split), and
\* the loop goes on.
DropOnEmpty ==
    [][(/\ ImageStep
        /\ LabelFilename(img_file') \in DOMAIN labels_dir
        /\ \A i \in 1..Len(labels_dir[LabelFilename(img_file')]) :
             ~Usable(labels_dir[LabelFilename(img_file')][i], dataset_idx))
       => /\ out_images' = out_images
          /\ out_labels' = out_labels
          /\ summary'[dataset_idx][split_idx].images
               = summary[dataset_idx][split_idx].images
          /\ summary'[dataset_idx][split_idx].labels
               = summary[dataset_idx][split_idx].labels
          /\ summary'[dataset_idx][split_idx].invalid_labels
               = summary[dataset_idx][split_idx].invalid_labels
                   + Len(labels_dir[LabelFilename(img_file')]) + 1
          /\ pc' = "io"
          /\ todo' = todo \ {img_file'}]_vars

DropOnEmptyWitness ==
    /\ LastHasLabel
    /\ num_classes = 3
    /\ LastLabel = <<L_99, L_99>>
    /\ summary[dataset_idx][split_idx].invalid_labels = 3
    /\ summary[dataset_idx][split_idx].images = 0
    /\ out_images = {} /\ out_labels = {}

\* C7: an image without a label file leaves the output files as they are and
\* adds exactly one to missing_labels of its (dataset, split) and nothing to
\* any other counter; the loop goes on, the run aborts only in the vocabulary
\* pass and it ends only after the last split of the last dataset.
SkipOnMissing ==
    /\ [][(ImageStep /\ LabelFilename(img_file') \notin DOMAIN labels_dir)
          => /\ out_images' = out_images
             /\ out_labels' = out_labels
             /\ summary' = [summary EXCEPT
                              ![dataset_idx][split_idx].missing_labels = @ + 1]
             /\ pc' = "io"
             /\ todo' = todo \ {img_file'}]_vars
    /\ [](pc = "aborted" => listed = 0)
    /\ [](pc = "done" => /\ todo = {}
                         /\ dataset_idx = NumDatasets - 1
                         /\ split_idx = NumSplits)

SkipOnMissingWitness ==
    /\ pc = "done"
    /\ summary[0][1].missing_labels = 1
    /\ summary[0][1].images = 0
    /\ summary[NumDatasets - 1][NumSplits].images = 1
    /\ Cardinality(out_images) = 1

A_out == <<"1"," ","0",".","5"," ","0",".","5"," ","0",".","1"," ","0",".","1">>

B_out == <<"0"," ","0",".","2"," ","0",".","2"," ","0",".","0","5"," ","0",".","0","5">>

\* The datasets of the end-to-end scenario: A declares ball, player and B
\* declares Ball, referee.
Scenario ==
    manifests = << [exists |-> TRUE, names |-> <<"ball", "player">>],
                   [exists |-> TRUE, names |-> <<"Ball", "referee">>] >>

\* The label file written for the image taken last holds exactly this line.
LastWritten(line) ==
    \E l \in out_labels :
        /\ l.split = split_idx
        /\ l.name = LabelFilename(DstImgFilename(dataset_idx, splits[split_idx], img_file))
        /\ l.content = <<line>>

EndToEnd(vocabulary) ==
    (Scenario /\ pc \in {"io", "done"})
      => /\ combined_classes = vocabulary
         /\ out_yaml.names = vocabulary
         /\ (LastHasLabel /\ dataset_idx = 0 /\ LastLabel = <<L_A>>) => LastWritten(A_out)
         /\ (LastHasLabel /\ dataset_idx = 1 /\ LastLabel = <<L_B>>) => LastWritten(B_out)

\* C8, as claimed: the scenario yields the vocabulary ball, player, referee
\* and the two label lines unchanged.
EndToEndAsClaimed == EndToEnd(<<"ball", "player", "referee">>)

\* C8, amended: the scenario yields the vocabulary ball, players, referees
\* (the canonical names of the synonym table) and the two label lines
\* "1 0.5 0.5 0.1 0.1" for A and "0 0.2 0.2 0.05 0.05" for B.
EndToEndCanonical == EndToEnd(<<"ball", "players", "referees">>)

EndToEndWitness ==
    /\ Scenario
    /\ pc = "done"
    /\ LastHasLabel /\ dataset_idx = 1 /\ LastLabel = <<L_B>>
    /\ Cardinality(out_labels) = 2
    /\ \E l \in out_labels : l.src.dataset = 0 /\ l.content = <<A_out>>
    /\ \E l \in out_labels : l.src.dataset = 1 /\ l.content = <<B_out>>

\* C9, as claimed: the branch of lines 161-163 is never taken.
NeverNotInMapping == not_in_mapping = 0

\* The accepted lines whose class id the dataset's own manifest does not declare.
BeyondDeclared(lines, d) ==
    Cardinality({i \in 1..Len(lines) :
                   Accepted(lines[i]) /\ int(strip_split(lines[i])[1]) >= Declared(d)})

\* C9, amended: every class id a manifest declares has an entry in the
\* mapping of its dataset, and the branch of lines 161-163 is taken exactly
\* for the accepted lines whose class id is not below the number of classes
\* the dataset's own manifest declares.
NotInMappingBeyondDeclared ==
    /\ [](\A d \in 1..Len(class_mappings) :
            Len(class_mappings[d]) = Len(manifests[d].names))
    /\ [][ImageStep
          => not_in_mapping' = not_in_mapping +
               (IF LabelFilename(img_file') \in DOMAIN labels_dir
                THEN BeyondDeclared(labels_dir[LabelFilename(img_file')], dataset_idx)
                ELSE 0)]_vars

NotInMappingWitness ==
    /\ LastHasLabel
    /\ LastLabel = <<L_2>>
    /\ num_classes = 3
    /\ Declared(dataset_idx) = 2
    /\ not_in_mapping = 1
    /\ summary[dataset_idx][split_idx].invalid_labels = 2

\* The files and counters of a result, without the files' provenance.
ResultView(r) ==
    [out_images |-> {[split |-> f.split, name |-> f.name, content |-> f.content] :
                       f \in r.out_images},
     out_labels |-> {[split |-> f.split, name |-> f.name, content |-> f.content] :
                       f \in r.out_labels},
     summary |-> r.summary]

\* C10: the output files, their content and the summary of a completed run
\* are those of the run that takes every listing in one fixed order.
OrderIndependent == pc = "done" => ResultView(Result) = ResultView(sorted_run)

====
